---- MODULE Spec2Model ----
(***************************************************************************)
(* A model of the GenAI Stack workflow builder: the reference backend      *)
(* services (document chunking, vector store, LLM service, workflow        *)
(* engine) and the React front end (workflow editor, chat interface).      *)
(*                                                                         *)
(* Texts are sequences of one-character strings, so that splitting and     *)
(* joining are computed and not assumed.                                   *)
(***************************************************************************)
EXTENDS Integers, Sequences, FiniteSets, TLC

VARIABLES
    \* ---- DocumentProcessor.chunk_text (one call) ----
    text,          \* the text handed to chunk_text
    chunk_size,    \* its chunk_size argument
    chunks,        \* the list it returned
    chunkPc,       \* "ready" before the call, "done" after it
    \* ---- one request to the backend: workflow_data and what is done with it ----
    workflow_data, \* the request's graph: [nodes, edges]
    validation,    \* what the validation rules answered for it, None before
    pc,            \* where WorkflowEngine.execute stands
    kb_node,       \* execute's local kb_node
    llm_node,      \* execute's local llm_node
    context,       \* execute's local context
    calls,         \* the provider calls made so far, in order
    result,        \* the dict execute returned, None before and on failure
    error,         \* the exception that left execute, "" if none
    execution_logs, \* the rows of table execution_logs of this invocation
    query,         \* execute's argument query
    prompt,        \* generate_response's local prompt, the system message it sends
    search_results, \* what perform_web_search returned, empty before
    \* ---- the vector store collection of one stack ----
    collection,    \* [exists, items]: whether it exists, and id -> stored item
    adds,          \* the calls of collection.add so far: [file, documents]
    query_result,  \* what the last VectorStore.query did, None before
    \* ---- the workflow editor page, whose nodes and edges are workflow_data ----
    loadPc,        \* loadStack: "loading", "loaded", or "left" after navigate('/')
    showChat,      \* WorkflowEditor's showChat
    saving,        \* WorkflowEditor's saving
    inflight,      \* the calls of saveWorkflow whose update has not returned:
                   \* the API keys in the workflow_data each of them sends
    lastBuild,     \* how the last Build Stack ended: "none", "passed", "failed"
    stored_keys,   \* the API keys in workflow_data of the stack's row of stacks
    \* ---- the ChatInterface instance shown while showChat ----
    loading,       \* ChatInterface's loading
    chatPc,        \* where sendMessage stands, "idle" outside it
    input,         \* ChatInterface's input
    execution,     \* what executeWorkflow does on the workflow sendMessage sees
    messages,      \* ChatInterface's messages: the rows it shows
    userMessage,   \* the content of sendMessage's userMessage
    histPc,        \* loadChatHistory: "select", "response", or "done"
    history,       \* the rows its select was answered with
    \* ---- what outlives a ChatInterface instance ----
    chat_messages, \* the rows of table chat_messages of the stack, as created
    detached,      \* the sendMessage calls of instances that were unmounted
    started,       \* the number of sendMessage calls that passed the guard
    \* ---- the database ----
    tables         \* the rows of each table, and how many each has had

chunkVars == <<text, chunk_size, chunks, chunkPc>>
graphVars == <<workflow_data, validation>>
llmVars == <<query, prompt, search_results>>
engineVars == <<pc, kb_node, llm_node, context, calls, result, error, execution_logs, llmVars>>

storeVars == <<collection, adds, query_result>>

editorVars == <<loadPc, showChat, saving, inflight, lastBuild, stored_keys>>
chatVars == <<loading, chatPc, input, execution, messages, userMessage, histPc, history>>
callVars == <<chat_messages, detached, started>>
uiVars == <<editorVars, chatVars, callVars>>

dbVars == <<tables>>

vars == <<chunkVars, graphVars, engineVars, storeVars, uiVars, dbVars>>

(***************************************************************************)
(* Bounds of the model.                                                    *)
(***************************************************************************)
MaxTextLen == 5
MaxChunkSize == 4
MaxNodes == 4
MaxChunks == 2
MaxAdds == 2
MaxTopK == 2
MaxSimilarity == 1
MaxPromptLen == 3
MaxEditorNodes == 3
MaxEdges == 1
MaxInflight == 2
MaxSends == 2
MaxStacks == 1
MaxDocuments == 1
MaxRows == 1

(***************************************************************************)
(* Characters and strings.                                                 *)
(***************************************************************************)
Letters == {"a", "b"}
Whitespace == {" ", "\n"}
Chars == Letters \cup Whitespace

Range(f) == {f[i] : i \in DOMAIN f}

SeqsUpTo(S, n) == UNION {[1..k -> S] : k \in 0..n}

\* ' '.join(words): the words with one space between neighbours.
RECURSIVE Join(_)
Join(words) ==
    IF words = <<>> THEN <<>>
    ELSE IF Len(words) = 1 THEN Head(words)
    ELSE Head(words) \o <<" ">> \o Join(Tail(words))

\* str.split() without a separator: the maximal runs of non-whitespace
\* characters, in order; no empty string is ever produced.
RECURSIVE SplitFrom(_, _, _)
SplitFrom(rest, word, acc) ==
    IF rest = <<>>
    THEN IF word = <<>> THEN acc ELSE Append(acc, word)
    ELSE IF Head(rest) \in Whitespace
         THEN SplitFrom(Tail(rest), <<>>,
                        IF word = <<>> THEN acc ELSE Append(acc, word))
         ELSE SplitFrom(Tail(rest), Append(word, Head(rest)), acc)

Split(t) == SplitFrom(t, <<>>, <<>>)

None == [type |-> "None"]

\* WorkflowEngine before execute is called.
EngineIdle ==
    /\ pc = "Idle"
    /\ kb_node = None
    /\ llm_node = None
    /\ context = <<>>
    /\ calls = <<>>
    /\ result = None
    /\ error = ""
    /\ execution_logs = <<>>
    /\ prompt = <<>>
    /\ search_results = <<>>

\* WorkflowEditor and ChatInterface as their useState calls leave them.
UiInitial ==
    /\ loadPc = "loading"
    /\ showChat = FALSE
    /\ saving = FALSE
    /\ inflight = <<>>
    /\ stored_keys = {}
    /\ lastBuild = "none"
    /\ loading = FALSE
    /\ chatPc = "idle"
    /\ input = <<>>
    /\ execution = None
    /\ messages = <<>>
    /\ userMessage = <<>>
    /\ histPc = "done"
    /\ history = <<>>
    /\ chat_messages = <<>>
    /\ detached = <<>>
    /\ started = 0

\* VectorStore after construction: a client, and no collection yet.
StoreEmpty ==
    /\ collection = [exists |-> FALSE, items |-> <<>>]
    /\ adds = <<>>
    /\ query_result = None

\* ---- the tables of the schema, before any row is inserted ----
\* A foreign key column that is NULL (none of them is declared NOT NULL).
Null == 0

NoTables ==
    [stacks |-> {}, documents |-> {}, embeddings |-> {},
     chat_messages |-> {}, execution_logs |-> {},
     created |-> [stacks |-> 0, documents |-> 0, embeddings |-> 0,
                  chat_messages |-> 0, execution_logs |-> 0],
     cascaded |-> 0]

DbEmpty == tables = NoTables

(***************************************************************************)
(* DocumentProcessor.chunk_text                                            *)
(***************************************************************************)
\* The loop with the trailing "if current_chunk" block left out: the final
\* partial chunk is never appended.
RECURSIVE ChunkLoop_DropsFinal(_, _, _, _, _)
ChunkLoop_DropsFinal(words, size, out, current_chunk, current_size) ==
    IF words = <<>>
    THEN out
    ELSE LET cc == Append(current_chunk, Head(words))
             cs == current_size + Len(Head(words)) + 1
         IN  IF cs >= size
             THEN ChunkLoop_DropsFinal(Tail(words), size, Append(out, Join(cc)), <<>>, 0)
             ELSE ChunkLoop_DropsFinal(Tail(words), size, out, cc, cs)

\* The loop with "current_size > chunk_size" as its test: a chunk whose
\* running length equals the chunk size is not emitted yet.
RECURSIVE ChunkLoop_EmitsLate(_, _, _, _, _)
ChunkLoop_EmitsLate(words, size, out, current_chunk, current_size) ==
    IF words = <<>>
    THEN IF current_chunk # <<>> THEN Append(out, Join(current_chunk)) ELSE out
    ELSE LET cc == Append(current_chunk, Head(words))
             cs == current_size + Len(Head(words)) + 1
         IN  IF cs > size
             THEN ChunkLoop_EmitsLate(Tail(words), size, Append(out, Join(cc)), <<>>, 0)
             ELSE ChunkLoop_EmitsLate(Tail(words), size, out, cc, cs)

\* The loop of chunk_text over the remaining words, with its three locals.
RECURSIVE ChunkLoop(_, _, _, _, _)
ChunkLoop(words, size, out, current_chunk, current_size) ==
    IF words = <<>>
    THEN IF current_chunk # <<>> THEN Append(out, Join(current_chunk)) ELSE out
    ELSE LET cc == Append(current_chunk, Head(words))
             cs == current_size + Len(Head(words)) + 1
         IN  IF cs >= size
             THEN ChunkLoop(Tail(words), size, Append(out, Join(cc)), <<>>, 0)
             ELSE ChunkLoop(Tail(words), size, out, cc, cs)

chunk_text(t, size) == ChunkLoop(Split(t), size, <<>>, <<>>, 0)

\* The text is any text; the chunk size is a positive number, as the 1000
\* that upload_document, the only caller, leaves it at.
ChunkInit ==
    /\ UiInitial
    /\ text \in SeqsUpTo(Chars, MaxTextLen)
    /\ chunk_size \in 1..MaxChunkSize
    /\ chunks = <<>>
    /\ chunkPc = "ready"
    /\ DbEmpty
    /\ workflow_data = [nodes |-> <<>>, edges |-> <<>>]
    /\ validation = None
    /\ EngineIdle
    /\ query = <<>>
    /\ StoreEmpty

\* One call of chunk_text on the given text.
ChunkText ==
    /\ chunkPc = "ready"
    /\ chunks' = chunk_text(text, chunk_size)
    /\ chunkPc' = "done"
    /\ UNCHANGED <<text, chunk_size, graphVars, engineVars, storeVars, uiVars, dbVars>>

ChunkNext == ChunkText

SpecChunker == ChunkInit /\ [][ChunkNext]_vars

(***************************************************************************)
(* Workflow graphs: nodes as the editor creates them (ComponentLibrary's   *)
(* getDefaultConfig, changed through the configuration panel).             *)
(***************************************************************************)
NodeTypes == {"userQuery", "knowledgeBase", "llmEngine", "output"}

\* The prompt of the LLM engine nodes: a text that uses both placeholders,
\* as the configuration panel suggests.
PromptTemplate == <<"a", "{", "context", "}", "{", "query", "}">>

\* The configurations a node of each type may carry.
Configs(type) ==
    CASE type = "userQuery" -> {[query |-> ""]}
      [] type = "knowledgeBase" ->
            {[embeddingModel |-> "text-embedding-3-large", apiKey |-> "",
              uploadedFiles |-> <<>>]}
      [] type = "llmEngine" ->
            {[model |-> "gpt-4o-mini", apiKey |-> k, prompt |-> PromptTemplate,
              useWebSearch |-> w, webSearchApiKey |-> ""] :
                k \in {"", "sk-1"}, w \in BOOLEAN}
      [] type = "output" -> {[displayMode |-> "text"]}

NodeBodies == UNION {{[type |-> t, config |-> c] : c \in Configs(t)} : t \in NodeTypes}

\* The node lists of a request: every node has its position as its id.
NodeLists ==
    {[i \in 1..Len(b) |-> [id |-> i, type |-> b[i].type, config |-> b[i].config]] :
        b \in SeqsUpTo(NodeBodies, MaxNodes)}

EdgeLists == {<<>>, <<[id |-> "e1", source |-> 1, target |-> 2]>>}

\* nodes.some(n => n.type === type)
HasType(nodes, type) == \E i \in 1..Len(nodes) : nodes[i].type = type

(***************************************************************************)
(* WorkflowEditor.validateWorkflow: the check behind Build Stack.          *)
(***************************************************************************)
validateWorkflow(nodes, edges) ==
    LET hasUserQuery == HasType(nodes, "userQuery")
        hasLLM == HasType(nodes, "llmEngine")
        hasOutput == HasType(nodes, "output")
    IN  hasUserQuery /\ hasLLM /\ hasOutput /\ Len(edges) > 0

(***************************************************************************)
(* The documented validation rules (validateWorkflow(nodes, edges) of the  *)
(* architecture documentation), which answer {valid, error}.               *)
(***************************************************************************)
\* validateNodeConfig is called by the rules and defined nowhere in the
\* sources; it is taken from the specification's data-model invariant 3.
validateNodeConfig(node) ==
    CASE node.type = "llmEngine" -> node.config.model # "" /\ node.config.apiKey # ""
      [] node.type = "knowledgeBase" -> node.config.embeddingModel # ""
      [] OTHER -> TRUE

\* The rules with the required-component test reduced to the LLM engine.
validateWorkflowRules_OnlyLLM(nodes, edges) ==
    IF ~HasType(nodes, "llmEngine")
    THEN [valid |-> FALSE, error |-> "Missing required components"]
    ELSE IF Len(edges) = 0
    THEN [valid |-> FALSE, error |-> "No connections between components"]
    ELSE [valid |-> TRUE]

validateWorkflowRules(nodes, edges) ==
    LET hasUserQuery == HasType(nodes, "userQuery")
        hasLLM == HasType(nodes, "llmEngine")
        hasOutput == HasType(nodes, "output")
        bad == {i \in 1..Len(nodes) : ~validateNodeConfig(nodes[i])}
    IN  IF ~hasUserQuery \/ ~hasLLM \/ ~hasOutput
        THEN [valid |-> FALSE, error |-> "Missing required components"]
        ELSE IF Len(edges) = 0
        THEN [valid |-> FALSE, error |-> "No connections between components"]
        ELSE IF bad # {}
        THEN [valid |-> FALSE,
              error |-> <<"Invalid config for ",
                          nodes[CHOOSE i \in bad : \A j \in bad : i <= j].id>>]
        ELSE [valid |-> TRUE]

GraphInit ==
    /\ workflow_data \in [nodes : NodeLists, edges : EdgeLists]
    /\ validation = None

\* POST /api/workflow/validate on the request's graph; Build Stack's own
\* check of the same graph is recorded beside it.
Validate ==
    /\ validation = None
    /\ pc = "Idle"
    /\ validation' =
          [rules |-> validateWorkflowRules(workflow_data.nodes, workflow_data.edges),
           buildStack |-> validateWorkflow(workflow_data.nodes, workflow_data.edges)]
    /\ UNCHANGED <<workflow_data, chunkVars, dbVars, engineVars, storeVars, uiVars>>

(***************************************************************************)
(* Validation on its own, over every graph a request may carry: nodes      *)
(* whose configuration fields were emptied, nodes that share an id, and    *)
(* edges that loop or end at no node.  A request is not bound to what the  *)
(* editor can draw.                                                        *)
(***************************************************************************)
RequestConfigs(type) ==
    CASE type = "userQuery" -> {[query |-> ""]}
      [] type = "knowledgeBase" ->
            {[embeddingModel |-> m, apiKey |-> "", uploadedFiles |-> <<>>] :
                m \in {"", "text-embedding-3-large"}}
      [] type = "llmEngine" ->
            {[model |-> m, apiKey |-> k, prompt |-> PromptTemplate,
              useWebSearch |-> TRUE, webSearchApiKey |-> ""] :
                m \in {"", "gpt-4o-mini"}, k \in {"", "sk-1"}}
      [] type = "output" -> {[displayMode |-> "text"]}

RequestBodies ==
    UNION {{[type |-> t, config |-> c] : c \in RequestConfigs(t)} : t \in NodeTypes}

\* Node lists whose ids are the positions, or all the same.
RequestNodeLists ==
    {[i \in 1..Len(b) |->
        [id |-> IF distinct THEN i ELSE 1, type |-> b[i].type, config |-> b[i].config]] :
        b \in SeqsUpTo(RequestBodies, MaxNodes), distinct \in BOOLEAN}

\* No edge, an edge between the first two nodes in either direction, a
\* self-loop, and an edge to an id that no node has.
RequestEdgeLists ==
    {<<>>} \cup {<<[id |-> "e1", source |-> e[1], target |-> e[2]]>> :
                   e \in {<<1, 2>>, <<2, 1>>, <<1, 1>>, <<1, MaxNodes + 1>>}}

ValidateInit ==
    /\ UiInitial
    /\ workflow_data \in [nodes : RequestNodeLists, edges : RequestEdgeLists]
    /\ validation = None
    /\ EngineIdle
    /\ query = <<>>
    /\ StoreEmpty
    /\ text = <<>>
    /\ chunk_size = 0
    /\ chunks = <<>>
    /\ chunkPc = "ready"
    /\ DbEmpty

ValidateNext == Validate

SpecValidate == ValidateInit /\ [][ValidateNext]_vars

(***************************************************************************)
(* WorkflowEngine (reference backend).  Every provider call is a step of   *)
(* its own; a provider either answers or raises, and nothing in execute,   *)
(* _retrieve_context or generate_response catches an exception.            *)
(***************************************************************************)
\* sep.join(parts)
RECURSIVE JoinWith(_, _)
JoinWith(sep, parts) ==
    IF parts = <<>> THEN <<>>
    ELSE IF Len(parts) = 1 THEN Head(parts)
    ELSE Head(parts) \o <<sep>> \o JoinWith(sep, Tail(parts))

\* What vector_store.query may hand back to _retrieve_context: nothing
\* (a falsy value) or a result whose documents hold one list per query.
QueryAnswers ==
    {None} \cup {[documents |-> <<d>>] :
                    d \in {<<>>, <<<<"a">>>>, <<<<"a">>, <<"b", " ", "a">>>>}}

\* _find_node_by_type: the first node of the type, None if there is none.
find_node_by_type(nodes, node_type) ==
    IF \E i \in 1..Len(nodes) : nodes[i].type = node_type
    THEN nodes[CHOOSE i \in 1..Len(nodes) :
                 /\ nodes[i].type = node_type
                 /\ \A j \in 1..(i - 1) : nodes[j].type # node_type]
    ELSE None

\* The tail of _retrieve_context: the concatenation of the query's answer.
ConcatenateResults(results) ==
    IF results # None /\ results.documents # <<>>
    THEN JoinWith("\n", results.documents[1])
    ELSE <<>>

\* Whether old occurs in s at position i.
OccursAt(s, old, i) ==
    /\ i + Len(old) - 1 <= Len(s)
    /\ \A k \in 1..Len(old) : s[i + k - 1] = old[k]

Contains(s, old) == \E i \in 1..Len(s) : OccursAt(s, old, i)

\* Python's str.replace(old, new) for a non-empty old: every occurrence,
\* found from left to right without overlap; what was put in is not searched.
RECURSIVE ReplaceAll(_, _, _)
ReplaceAll(s, old, new) ==
    IF s = <<>> THEN <<>>
    ELSE IF OccursAt(s, old, 1)
         THEN new \o ReplaceAll(SubSeq(s, Len(old) + 1, Len(s)), old, new)
         ELSE <<Head(s)>> \o ReplaceAll(Tail(s), old, new)

\* The placeholders of a prompt template.  The words context and query
\* stand as one symbol each between their braces.
ContextToken == <<"{", "context", "}">>
QueryToken == <<"{", "query", "}">>

\* f"\n\nWeb Search Results:\n", with the heading as one symbol.
WebSearchHeading == <<"\n", "\n", "Web Search Results:", "\n">>

\* The organic_results of the search provider's JSON answer: none, one, or
\* more than the three that perform_web_search reads.
Snippet == [snippet |-> <<"s">>]
OrganicResults == {<<>>, <<Snippet>>, <<Snippet, Snippet, Snippet, Snippet>>}

\* perform_web_search on the provider's answer: the snippets of the first
\* three results, joined by newlines.
perform_web_search(organic_results) ==
    LET first3 == SubSeq(organic_results, 1,
                         IF Len(organic_results) < 3 THEN Len(organic_results) ELSE 3)
    IN  JoinWith("\n", [i \in 1..Len(first3) |-> first3[i].snippet])

\* The first three statements of generate_response.
SubstitutePrompt(config, ctx, q) ==
    ReplaceAll(ReplaceAll(config.prompt, ContextToken, ctx), QueryToken, q)

EngineFail(e) ==
    /\ pc' = "Failed"
    /\ error' = e

\* execute is called with the request's workflow_data.
EngineExecute ==
    /\ pc = "Idle"
    /\ pc' = "find_components"
    /\ UNCHANGED <<kb_node, llm_node, context, calls, result, error, execution_logs>>
    /\ UNCHANGED <<chunkVars, dbVars, graphVars, storeVars, llmVars, uiVars>>

\* An execute that goes from the component lookup straight to the model.
EngineFindComponents_SkipsContext ==
    /\ pc = "find_components"
    /\ kb_node' = find_node_by_type(workflow_data.nodes, "knowledgeBase")
    /\ llm_node' = find_node_by_type(workflow_data.nodes, "llmEngine")
    /\ context' = <<>>
    /\ pc' = "execute_llm"
    /\ UNCHANGED <<calls, result, error, execution_logs>>
    /\ UNCHANGED <<chunkVars, dbVars, graphVars, storeVars, llmVars, uiVars>>

\* "# Find components", then context = "".
EngineFindComponents ==
    /\ pc = "find_components"
    /\ kb_node' = find_node_by_type(workflow_data.nodes, "knowledgeBase")
    /\ llm_node' = find_node_by_type(workflow_data.nodes, "llmEngine")
    /\ context' = <<>>
    /\ pc' = "retrieve_context"
    /\ UNCHANGED <<calls, result, error, execution_logs>>
    /\ UNCHANGED <<chunkVars, dbVars, graphVars, storeVars, llmVars, uiVars>>

\* An execute that retrieves context whether or not there is a kb_node.
EngineRetrieveContext_IgnoresKbNode ==
    /\ pc = "retrieve_context"
    /\ calls' = Append(calls, "embedding")
    /\ pc' = "query_vector_store"
    /\ UNCHANGED <<kb_node, llm_node, context, result, error, execution_logs>>
    /\ UNCHANGED <<chunkVars, dbVars, graphVars, storeVars, llmVars, uiVars>>

\* "if kb_node: context = await self._retrieve_context(...)": the query is
\* embedded first.
EngineRetrieveContext ==
    /\ pc = "retrieve_context"
    /\ \/ /\ kb_node = None
          /\ pc' = "execute_llm"
          /\ UNCHANGED <<calls, error>>
       \/ /\ kb_node # None
          /\ calls' = Append(calls, "embedding")
          /\ \/ pc' = "query_vector_store" /\ UNCHANGED error
             \/ EngineFail("EmbeddingError")
    /\ UNCHANGED <<kb_node, llm_node, context, result, execution_logs>>
    /\ UNCHANGED <<chunkVars, dbVars, graphVars, storeVars, llmVars, uiVars>>

\* _retrieve_context: vector_store.query with the embedded query, then the
\* concatenation of what it answered.
EngineQueryVectorStore ==
    /\ pc = "query_vector_store"
    /\ calls' = Append(calls, "vector_store")
    /\ \/ \E results \in QueryAnswers :
             /\ context' = ConcatenateResults(results)
             /\ pc' = "execute_llm"
             /\ UNCHANGED error
       \/ EngineFail("VectorStoreError") /\ UNCHANGED context
    /\ UNCHANGED <<kb_node, llm_node, result, execution_logs>>
    /\ UNCHANGED <<chunkVars, dbVars, graphVars, storeVars, llmVars, uiVars>>

\* "# Execute LLM": generate_response is entered if there is an llm_node,
\* and turns to the web search first if the configuration asks for it.
EngineExecuteLLM ==
    /\ pc = "execute_llm"
    /\ \/ /\ llm_node = None
          /\ EngineFail("ValueError: LLM node not found")
          /\ UNCHANGED prompt
       \/ /\ llm_node # None
          /\ prompt' = SubstitutePrompt(llm_node.config, context, query)
          /\ pc' = IF llm_node.config.useWebSearch THEN "web_search" ELSE "chat_completion"
          /\ UNCHANGED error
    /\ UNCHANGED <<kb_node, llm_node, context, calls, result, execution_logs>>
    /\ UNCHANGED <<chunkVars, dbVars, graphVars, storeVars, query, search_results, uiVars>>

\* A generate_response that searches and leaves the prompt as it was.
EngineWebSearch_NotAppended ==
    /\ pc = "web_search"
    /\ calls' = Append(calls, "web_search")
    /\ \/ \E organic_results \in OrganicResults :
             /\ search_results' = perform_web_search(organic_results)
             /\ pc' = "chat_completion"
             /\ UNCHANGED <<prompt, error>>
       \/ EngineFail("WebSearchError") /\ UNCHANGED <<prompt, search_results>>
    /\ UNCHANGED <<kb_node, llm_node, context, result, execution_logs>>
    /\ UNCHANGED <<chunkVars, dbVars, graphVars, storeVars, query, uiVars>>

\* "if config.get('useWebSearch')": perform_web_search makes one request
\* to the search provider, which answers or raises (requests.get,
\* response.json()); what it returns is appended to the prompt.
EngineWebSearch ==
    /\ pc = "web_search"
    /\ calls' = Append(calls, "web_search")
    /\ \/ \E organic_results \in OrganicResults :
             /\ search_results' = perform_web_search(organic_results)
             /\ prompt' = prompt \o WebSearchHeading \o search_results'
             /\ pc' = "chat_completion"
             /\ UNCHANGED error
       \/ EngineFail("WebSearchError") /\ UNCHANGED <<prompt, search_results>>
    /\ UNCHANGED <<kb_node, llm_node, context, result, execution_logs>>
    /\ UNCHANGED <<chunkVars, dbVars, graphVars, storeVars, query, uiVars>>

\* A generate_response that calls the model again whenever the call fails.
EngineChatCompletion_Retries ==
    /\ pc = "chat_completion"
    /\ calls' = Append(calls, "llm")
    /\ \/ /\ pc' = "Completed"
          /\ result' = [response |-> <<"r">>,
                        metadata |-> [context_used |-> context # <<>>]]
       \/ UNCHANGED <<pc, result>>
    /\ UNCHANGED <<kb_node, llm_node, context, error, execution_logs>>
    /\ UNCHANGED <<chunkVars, dbVars, graphVars, storeVars, llmVars, uiVars>>

\* client.chat.completions.create, and execute's return.
EngineChatCompletion ==
    /\ pc = "chat_completion"
    /\ calls' = Append(calls, "llm")
    /\ \/ /\ pc' = "Completed"
          /\ result' = [response |-> <<"r">>,
                        metadata |-> [context_used |-> context # <<>>]]
          /\ UNCHANGED error
       \/ EngineFail("LLMError") /\ UNCHANGED result
    /\ UNCHANGED <<kb_node, llm_node, context, execution_logs>>
    /\ UNCHANGED <<chunkVars, dbVars, graphVars, storeVars, llmVars, uiVars>>

EngineInit ==
    /\ UiInitial
    /\ GraphInit
    /\ EngineIdle
    /\ query = <<"a">>
    /\ StoreEmpty
    /\ text = <<>>
    /\ chunk_size = 0
    /\ chunks = <<>>
    /\ chunkPc = "ready"
    /\ DbEmpty

EngineNext ==
    \/ Validate
    \/ EngineExecute
    \/ EngineFindComponents
    \/ EngineRetrieveContext
    \/ EngineQueryVectorStore
    \/ EngineExecuteLLM
    \/ EngineWebSearch
    \/ EngineChatCompletion

SpecEngine == EngineInit /\ [][EngineNext]_vars

(***************************************************************************)
(* VectorStore over a ChromaDB collection, and upload_document.            *)
(* The collection belongs to the database, not to this repository: of      *)
(* collection.add with an id that is already stored only the two           *)
(* behaviours of the database are taken (the call raises and stores        *)
(* nothing, or the stored item is kept and the new one dropped), and of    *)
(* collection.query only that it answers the n_results nearest items,      *)
(* nearest first, in no particular order among equally near ones.          *)
(***************************************************************************)
Files == {"f1", "f2"}
ChunkTexts == {<<"a">>, <<"b">>}

\* The chunk lists chunk_text may hand to upload_document.
ChunkLists == SeqsUpTo(ChunkTexts, MaxChunks) \ {<<>>}

\* ids = [f"doc_{i}" for i in range(len(documents))]; the id doc_i is i.
DocIds(documents) == 0..(Len(documents) - 1)

\* metadatas=[{"chunk_index": i} ...], stored beside each document.
Item(documents, i) == [document |-> documents[i + 1], chunk_index |-> i]

\* collection.add where it stores: the items whose id is not yet stored.
AddNew(items, documents) ==
    [id \in DOMAIN items \cup DocIds(documents) |->
        IF id \in DOMAIN items THEN items[id] ELSE Item(documents, id)]

\* create_collection: get_or_create_collection.
CreateCollection ==
    /\ ~collection.exists
    /\ collection' = [exists |-> TRUE, items |-> <<>>]
    /\ UNCHANGED <<adds, query_result>>
    /\ UNCHANGED <<chunkVars, dbVars, graphVars, engineVars, uiVars>>

\* upload_document of one file: its chunks are embedded and handed to
\* add_documents.  The embedding call may raise, get_collection raises when
\* the collection does not exist, and collection.add may raise on an id
\* that is already stored; each leaves the collection as it was.
UploadDocument ==
    /\ Len(adds) < MaxAdds
    /\ \E file \in Files, documents \in ChunkLists :
          \/ /\ collection.exists
             /\ adds' = Append(adds, [file |-> file, documents |-> documents])
             /\ \/ collection' = [collection EXCEPT
                                     !.items = AddNew(collection.items, documents)]
                \/ /\ DOMAIN collection.items \cap DocIds(documents) # {}
                   /\ UNCHANGED collection
          \/ /\ ~collection.exists
             /\ UNCHANGED <<collection, adds>>
    /\ UNCHANGED query_result
    /\ UNCHANGED <<chunkVars, dbVars, graphVars, engineVars, uiVars>>

\* The answers collection.query may give for n_results: the nearest items,
\* nearest first.
RankedAnswers(items, sim, n_results) ==
    LET k == IF Cardinality(DOMAIN items) < n_results
             THEN Cardinality(DOMAIN items) ELSE n_results
    IN  {r \in [1..k -> DOMAIN items] :
            /\ \A i, j \in 1..k : i < j => r[i] # r[j]
            /\ \A i, j \in 1..k : i < j => sim[items[r[i]].document] >= sim[items[r[j]].document]
            /\ \A id \in DOMAIN items \ Range(r) :
                  \A i \in 1..k : sim[items[r[i]].document] >= sim[items[id].document]}

\* VectorStore.query with a query embedding, which fixes the similarity of
\* every text to the query.
Query ==
    /\ \E n_results \in 1..MaxTopK, sim \in [ChunkTexts -> 0..MaxSimilarity] :
          \/ /\ ~collection.exists
             /\ query_result' = [existed |-> FALSE, raised |-> TRUE,
                                 n_results |-> n_results]
          \/ /\ collection.exists
             /\ \E r \in RankedAnswers(collection.items, sim, n_results) :
                   query_result' =
                      [existed |-> TRUE, raised |-> FALSE, n_results |-> n_results,
                       ids |-> r,
                       documents |-> [i \in DOMAIN r |-> collection.items[r[i]].document],
                       chunk_index |-> [i \in DOMAIN r |-> collection.items[r[i]].chunk_index],
                       similarity |-> [i \in DOMAIN r |-> sim[collection.items[r[i]].document]],
                       stored |-> Cardinality(DOMAIN collection.items)]
    /\ UNCHANGED <<collection, adds>>
    /\ UNCHANGED <<chunkVars, dbVars, graphVars, engineVars, uiVars>>

StoreInit ==
    /\ UiInitial
    /\ StoreEmpty
    /\ EngineIdle
    /\ query = <<>>
    /\ workflow_data = [nodes |-> <<>>, edges |-> <<>>]
    /\ validation = None
    /\ text = <<>>
    /\ chunk_size = 0
    /\ chunks = <<>>
    /\ chunkPc = "ready"
    /\ DbEmpty

StoreNext == CreateCollection \/ UploadDocument \/ Query

SpecStore == StoreInit /\ [][StoreNext]_vars

(***************************************************************************)
(* The tables of the schema and their foreign keys: rows are inserted with *)
(* a generated id and deleted, as the policies allow for every table; of a *)
(* row only its id and its foreign key are followed.                       *)
(***************************************************************************)
\* DELETE FROM stacks with the foreign keys declared without ON DELETE
\* CASCADE and not enforced: only the row of stacks goes.
DeleteFromStacks_NoCascade(t, s) == [t EXCEPT !.stacks = @ \ {s}]

\* DELETE FROM stacks WHERE id = s: the row goes, and by ON DELETE CASCADE
\* the documents, chat messages and execution logs of the stack with it, and
\* with each document its embeddings.
DeleteFromStacks(t, s) ==
    LET docs == {d \in t.documents : d.stack_id = s}
        embs == {e \in t.embeddings : e.document_id \in {d.id : d \in docs}}
        msgs == {m \in t.chat_messages : m.stack_id = s}
        logs == {l \in t.execution_logs : l.stack_id = s}
    IN  [t EXCEPT !.stacks = @ \ {s},
                  !.documents = @ \ docs,
                  !.embeddings = @ \ embs,
                  !.chat_messages = @ \ msgs,
                  !.execution_logs = @ \ logs,
                  !.cascaded = @ + Cardinality(docs) + Cardinality(embs)
                                 + Cardinality(msgs) + Cardinality(logs)]

\* DELETE FROM documents WHERE id = d: the row and, by ON DELETE CASCADE,
\* its embeddings.
DeleteFromDocuments(t, d) ==
    LET embs == {e \in t.embeddings : e.document_id = d.id}
    IN  [t EXCEPT !.documents = @ \ {d},
                  !.embeddings = @ \ embs,
                  !.cascaded = @ + Cardinality(embs)]

\* INSERT INTO stacks: the id is gen_random_uuid(), which no row had before.
InsertStack ==
    /\ tables.created.stacks < MaxStacks
    /\ tables' = [tables EXCEPT !.stacks = @ \cup {tables.created.stacks + 1},
                                !.created.stacks = @ + 1]
    /\ UNCHANGED <<chunkVars, graphVars, engineVars, storeVars, uiVars>>

DeleteStack ==
    /\ \E s \in tables.stacks : tables' = DeleteFromStacks(tables, s)
    /\ UNCHANGED <<chunkVars, graphVars, engineVars, storeVars, uiVars>>

\* INSERT INTO documents: stack_id is NULL or the id of a row of stacks, or
\* the foreign key rejects the insert.
InsertDocument ==
    /\ tables.created.documents < MaxDocuments
    /\ \E stack_id \in {Null} \cup 1..MaxStacks :
          /\ stack_id = Null \/ stack_id \in tables.stacks
          /\ tables' =
                [tables EXCEPT
                    !.documents = @ \cup {[id |-> tables.created.documents + 1,
                                           stack_id |-> stack_id]},
                    !.created.documents = @ + 1]
    /\ UNCHANGED <<chunkVars, graphVars, engineVars, storeVars, uiVars>>

DeleteDocument ==
    /\ \E d \in tables.documents : tables' = DeleteFromDocuments(tables, d)
    /\ UNCHANGED <<chunkVars, graphVars, engineVars, storeVars, uiVars>>

\* INSERT INTO embeddings, with document_id under its foreign key.
InsertEmbedding ==
    /\ tables.created.embeddings < MaxRows
    /\ \E document_id \in {Null} \cup 1..MaxDocuments :
          /\ document_id = Null \/ document_id \in {d.id : d \in tables.documents}
          /\ tables' =
                [tables EXCEPT
                    !.embeddings = @ \cup {[id |-> tables.created.embeddings + 1,
                                            document_id |-> document_id]},
                    !.created.embeddings = @ + 1]
    /\ UNCHANGED <<chunkVars, graphVars, engineVars, storeVars, uiVars>>

DeleteEmbedding ==
    /\ \E e \in tables.embeddings : tables' = [tables EXCEPT !.embeddings = @ \ {e}]
    /\ UNCHANGED <<chunkVars, graphVars, engineVars, storeVars, uiVars>>

\* INSERT INTO chat_messages, with stack_id under its foreign key.
InsertChatMessage ==
    /\ tables.created.chat_messages < MaxRows
    /\ \E stack_id \in {Null} \cup 1..MaxStacks :
          /\ stack_id = Null \/ stack_id \in tables.stacks
          /\ tables' =
                [tables EXCEPT
                    !.chat_messages = @ \cup {[id |-> tables.created.chat_messages + 1,
                                               stack_id |-> stack_id]},
                    !.created.chat_messages = @ + 1]
    /\ UNCHANGED <<chunkVars, graphVars, engineVars, storeVars, uiVars>>

DeleteChatMessage ==
    /\ \E m \in tables.chat_messages :
          tables' = [tables EXCEPT !.chat_messages = @ \ {m}]
    /\ UNCHANGED <<chunkVars, graphVars, engineVars, storeVars, uiVars>>

\* INSERT INTO execution_logs, with stack_id under its foreign key.
InsertExecutionLog ==
    /\ tables.created.execution_logs < MaxRows
    /\ \E stack_id \in {Null} \cup 1..MaxStacks :
          /\ stack_id = Null \/ stack_id \in tables.stacks
          /\ tables' =
                [tables EXCEPT
                    !.execution_logs = @ \cup {[id |-> tables.created.execution_logs + 1,
                                                stack_id |-> stack_id]},
                    !.created.execution_logs = @ + 1]
    /\ UNCHANGED <<chunkVars, graphVars, engineVars, storeVars, uiVars>>

DeleteExecutionLog ==
    /\ \E l \in tables.execution_logs :
          tables' = [tables EXCEPT !.execution_logs = @ \ {l}]
    /\ UNCHANGED <<chunkVars, graphVars, engineVars, storeVars, uiVars>>

DbInit ==
    /\ UiInitial
    /\ StoreEmpty
    /\ EngineIdle
    /\ query = <<>>
    /\ workflow_data = [nodes |-> <<>>, edges |-> <<>>]
    /\ validation = None
    /\ text = <<>>
    /\ chunk_size = 0
    /\ chunks = <<>>
    /\ chunkPc = "ready"
    /\ DbEmpty

DbNext ==
    \/ InsertStack
    \/ DeleteStack
    \/ InsertDocument
    \/ DeleteDocument
    \/ InsertEmbedding
    \/ DeleteEmbedding
    \/ InsertChatMessage
    \/ DeleteChatMessage
    \/ InsertExecutionLog
    \/ DeleteExecutionLog

SpecDb == DbInit /\ [][DbNext]_vars

(***************************************************************************)
(* The front end: WorkflowEditor with its ComponentLibrary, and the        *)
(* ChatInterface it shows while showChat.  The editor's nodes and edges    *)
(* are workflow_data.  Every control is a button or a key handler that     *)
(* stays operable from the keyboard while the chat is shown over the page, *)
(* so no handler is guarded by showChat unless its code is.                *)
(***************************************************************************)
\* String.prototype.trim
RECURSIVE Trim(_)
Trim(t) ==
    IF t = <<>> THEN <<>>
    ELSE IF Head(t) \in Whitespace THEN Trim(Tail(t))
    ELSE IF t[Len(t)] \in Whitespace THEN Trim(SubSeq(t, 1, Len(t) - 1))
    ELSE t

\* The replacement text of String.prototype.replace: the pattern $& in it
\* stands for the matched text.
RECURSIVE ExpandReplacement(_, _)
ExpandReplacement(new, matched) ==
    IF new = <<>> THEN <<>>
    ELSE (IF Head(new) = "$&" THEN matched ELSE <<Head(new)>>)
            \o ExpandReplacement(Tail(new), matched)

\* String.prototype.replace with a string pattern: the first occurrence only.
ReplaceFirst(t, old, new) ==
    IF Contains(t, old)
    THEN LET i == CHOOSE k \in 1..Len(t) :
                     /\ OccursAt(t, old, k)
                     /\ \A j \in 1..(k - 1) : ~OccursAt(t, old, j)
         IN  SubSeq(t, 1, i - 1) \o ExpandReplacement(new, old)
                \o SubSeq(t, i + Len(old), Len(t))
    ELSE t

\* The API keys that may be typed into the ConfigPanel.
ApiKeys == {"sk-1", "serp-1"}

\* The API keys a workflow_data holds in the configurations of its nodes.
KeysOf(workflow) ==
    {workflow.nodes[i].config[field] :
        <<i, field>> \in
           {x \in (DOMAIN workflow.nodes) \X {"apiKey", "webSearchApiKey"} :
               x[2] \in DOMAIN workflow.nodes[x[1]].config}} \ {""}

\* 'You are a helpful assistant.'
DefaultAssistantPrompt == <<"assistant">>

\* ComponentLibrary.getDefaultConfig; its LLM prompt names no placeholder.
getDefaultConfig(type) ==
    CASE type = "userQuery" -> [query |-> ""]
      [] type = "knowledgeBase" ->
            [embeddingModel |-> "text-embedding-3-large", apiKey |-> "",
             uploadedFiles |-> <<>>]
      [] type = "llmEngine" ->
            [model |-> "gpt-4o-mini", apiKey |-> "", prompt |-> <<"a">>,
             useWebSearch |-> TRUE, webSearchApiKey |-> ""]
      [] type = "output" -> [displayMode |-> "text"]

\* ChatInterface.executeWorkflow on the workflow and query it is called
\* with: it throws without an LLM engine node, and otherwise builds the
\* context and the prompt and answers with the simulated response.
executeWorkflow(workflow, q) ==
    LET knowledgeBaseNode == find_node_by_type(workflow.nodes, "knowledgeBase")
        llmNode == find_node_by_type(workflow.nodes, "llmEngine")
    IN  IF llmNode = None
        THEN [throws |-> TRUE]
        ELSE LET n == IF knowledgeBaseNode # None
                      THEN Len(knowledgeBaseNode.config.uploadedFiles) ELSE 0
                 ctx == IF n > 0
                        THEN <<"[Context from ", ToString(n), " document(s)]">>
                        ELSE <<>>
                 p0 == IF llmNode.config.prompt # <<>>
                       THEN llmNode.config.prompt ELSE DefaultAssistantPrompt
                 p1 == IF ctx # <<>> THEN ReplaceFirst(p0, ContextToken, ctx) ELSE p0
             IN  [throws |-> FALSE, context |-> ctx,
                  prompt |-> ReplaceFirst(p1, QueryToken, q),
                  response |->
                     <<"This is a simulated response to: ">> \o q
                        \o <<"- Model: ", llmNode.config.model,
                             "- Web Search: ",
                             IF llmNode.config.useWebSearch
                             THEN "Enabled" ELSE "Disabled">>
                        \o (IF ctx # <<>>
                            THEN <<"- Using context from knowledge base">>
                            ELSE <<>>)]

\* The node addComponent makes: its id is `${type}-${uuidv4()}`, with a
\* number in the uuid's place.
NewNode(type, uuid) == [id |-> <<type, uuid>>, type |-> type, config |-> getDefaultConfig(type)]

\* The workflow_data a stacks row may hold when the page loads it: the
\* column default '{}', or a workflow saved earlier, empty or complete.
StoredWorkflows ==
    {None,
     [nodes |-> <<>>, edges |-> <<>>],
     [nodes |-> <<NewNode("userQuery", 1), NewNode("llmEngine", 1), NewNode("output", 1)>>,
      edges |-> <<[source |-> <<"userQuery", 1>>, target |-> <<"llmEngine", 1>>]>>]}

\* A row of chat_messages: who wrote it, what it says, metadata.error, and
\* the sendMessage call of this page that inserted it (0 for an earlier row).
Row(call, role, content, err) ==
    [call |-> call, role |-> role, content |-> content, error |-> err]

\* 'Sorry, there was an error processing your request. ...'
ErrorContent == <<"Sorry">>

\* .limit(50)
HistoryLimit == 50

\* A ChatInterface as it is mounted: its useState values, and the effect
\* that starts loadChatHistory.
ChatMounted ==
    /\ loading' = FALSE
    /\ chatPc' = "idle"
    /\ input' = <<>>
    /\ execution' = None
    /\ messages' = <<>>
    /\ userMessage' = <<>>
    /\ histPc' = "select"
    /\ history' = <<>>

\* A ChatInterface is unmounted: its state is gone and nothing it sets is
\* seen any more, but a sendMessage call it has started runs on.
ChatUnmounted ==
    /\ loading' = FALSE
    /\ chatPc' = "idle"
    /\ input' = <<>>
    /\ execution' = None
    /\ messages' = <<>>
    /\ userMessage' = <<>>
    /\ histPc' = "done"
    /\ history' = <<>>
    /\ detached' =
          IF chatPc = "idle" THEN detached
          ELSE Append(detached,
                      [call |-> started, pc |-> chatPc, unmountedAt |-> chatPc,
                       userMessage |-> userMessage, execution |-> execution])

\* loadStack returns: the row's nodes and edges are taken if it has them;
\* on an error the page is left for the dashboard, and the editor and its
\* chat are unmounted.
LoadStack ==
    /\ loadPc = "loading"
    /\ \/ /\ loadPc' = "loaded"
          /\ \E stored \in StoredWorkflows :
                workflow_data' = IF stored = None THEN workflow_data ELSE stored
          /\ UNCHANGED <<showChat, saving, lastBuild, chatVars, callVars>>
       \/ /\ loadPc' = "left"
          /\ workflow_data' = [nodes |-> <<>>, edges |-> <<>>]
          /\ showChat' = FALSE
          /\ saving' = FALSE
          /\ lastBuild' = "none"
          /\ ChatUnmounted
          /\ UNCHANGED <<chat_messages, started>>
    /\ UNCHANGED <<inflight, stored_keys>>
    /\ UNCHANGED <<validation, chunkVars, dbVars, engineVars, storeVars>>

\* uuidv4(): a number that no node of the type carries.
FreshUuid(nodes, type) ==
    CHOOSE uuid \in 1..(Len(nodes) + 1) :
        \A i \in 1..Len(nodes) : nodes[i].id # <<type, uuid>>

\* ComponentLibrary.addComponent
AddComponent ==
    /\ loadPc # "left"
    /\ Len(workflow_data.nodes) < MaxEditorNodes
    /\ \E type \in NodeTypes :
          workflow_data' =
             [workflow_data EXCEPT !.nodes =
                 Append(@, NewNode(type, FreshUuid(workflow_data.nodes, type)))]
    /\ UNCHANGED <<validation, uiVars, chunkVars, dbVars, engineVars, storeVars>>

\* What is left of a list without the entry at position i.
Without(list, i) == SubSeq(list, 1, i - 1) \o SubSeq(list, i + 1, Len(list))

RECURSIVE EdgesNotAt(_, _)
EdgesNotAt(edges, id) ==
    IF edges = <<>> THEN <<>>
    ELSE IF Head(edges).source = id \/ Head(edges).target = id
         THEN EdgesNotAt(Tail(edges), id)
         ELSE <<Head(edges)>> \o EdgesNotAt(Tail(edges), id)

\* onNodesChange with the removal of a node; React Flow removes the edges
\* at the node with it.
RemoveNode ==
    /\ loadPc # "left"
    /\ \E i \in 1..Len(workflow_data.nodes) :
          workflow_data' =
             [nodes |-> Without(workflow_data.nodes, i),
              edges |-> EdgesNotAt(workflow_data.edges, workflow_data.nodes[i].id)]
    /\ UNCHANGED <<validation, uiVars, chunkVars, dbVars, engineVars, storeVars>>

\* onConnect: addEdge of a connection between two handles, which adds
\* nothing when the same connection is there already.
OnConnect ==
    /\ loadPc # "left"
    /\ Len(workflow_data.edges) < MaxEdges
    /\ \E i, j \in 1..Len(workflow_data.nodes) :
          LET edge == [source |-> workflow_data.nodes[i].id,
                       target |-> workflow_data.nodes[j].id]
          IN  /\ edge \notin Range(workflow_data.edges)
              /\ workflow_data' = [workflow_data EXCEPT !.edges = Append(@, edge)]
    /\ UNCHANGED <<validation, uiVars, chunkVars, dbVars, engineVars, storeVars>>

\* onEdgesChange with the removal of an edge.
RemoveEdge ==
    /\ loadPc # "left"
    /\ \E i \in 1..Len(workflow_data.edges) :
          workflow_data' = [workflow_data EXCEPT !.edges = Without(@, i)]
    /\ UNCHANGED <<validation, uiVars, chunkVars, dbVars, engineVars, storeVars>>

\* ConfigPanel.handleChange of an API key field of the selected node, which
\* updateNodeConfig puts into the node.
UpdateNodeConfig ==
    /\ loadPc # "left"
    /\ \E i \in DOMAIN workflow_data.nodes, field \in {"apiKey", "webSearchApiKey"},
          value \in ApiKeys \cup {""} :
          /\ field \in DOMAIN workflow_data.nodes[i].config
          /\ workflow_data.nodes[i].config[field] # value
          /\ workflow_data' = [workflow_data EXCEPT !.nodes[i].config[field] = value]
    /\ UNCHANGED <<validation, uiVars, chunkVars, dbVars, engineVars, storeVars>>

\* The Save button, disabled while saving: saveWorkflow up to its await,
\* the update being sent with the nodes and edges of this render.
SaveWorkflow ==
    /\ loadPc # "left"
    /\ ~saving
    /\ Len(inflight) < MaxInflight
    /\ saving' = TRUE
    /\ inflight' = Append(inflight, KeysOf(workflow_data))
    /\ UNCHANGED <<loadPc, showChat, lastBuild, stored_keys, chatVars, callVars>>
    /\ UNCHANGED <<graphVars, chunkVars, dbVars, engineVars, storeVars>>

\* An update of saveWorkflow returns: the row holds what was sent, or the
\* update failed and the error is logged; then finally.
SaveReturns ==
    /\ \E i \in DOMAIN inflight :
          /\ inflight' = Without(inflight, i)
          /\ \/ stored_keys' = inflight[i]
             \/ UNCHANGED stored_keys
    /\ saving' = FALSE
    /\ UNCHANGED <<loadPc, showChat, lastBuild, chatVars, callVars>>
    /\ UNCHANGED <<graphVars, chunkVars, dbVars, engineVars, storeVars>>

\* buildStack: the alert and nothing else when validateWorkflow fails;
\* otherwise saveWorkflow is started and the chat is shown.
BuildStack ==
    /\ loadPc # "left"
    /\ \/ /\ ~validateWorkflow(workflow_data.nodes, workflow_data.edges)
          /\ lastBuild' = "failed"
          /\ UNCHANGED <<showChat, saving, inflight, chatVars, callVars>>
       \/ /\ validateWorkflow(workflow_data.nodes, workflow_data.edges)
          /\ Len(inflight) < MaxInflight
          /\ saving' = TRUE
          /\ inflight' = Append(inflight, KeysOf(workflow_data))
          /\ showChat' = TRUE
          /\ lastBuild' = "passed"
          /\ IF showChat THEN UNCHANGED chatVars ELSE ChatMounted
          /\ UNCHANGED callVars
    /\ UNCHANGED <<loadPc, stored_keys>>
    /\ UNCHANGED <<graphVars, chunkVars, dbVars, engineVars, storeVars>>

\* onClose: the ChatInterface is unmounted.
CloseChat ==
    /\ showChat
    /\ showChat' = FALSE
    /\ ChatUnmounted
    /\ UNCHANGED <<chat_messages, started>>
    /\ UNCHANGED <<loadPc, saving, inflight, lastBuild, stored_keys>>
    /\ UNCHANGED <<graphVars, chunkVars, dbVars, engineVars, storeVars>>

\* loadChatHistory's select is answered by the database with the rows the
\* stack has at that moment, oldest first, at most 50.
LoadHistorySelect ==
    /\ showChat
    /\ histPc = "select"
    /\ histPc' = "response"
    /\ history' = SubSeq(chat_messages, 1,
                         IF Len(chat_messages) < HistoryLimit
                         THEN Len(chat_messages) ELSE HistoryLimit)
    /\ UNCHANGED <<loading, chatPc, input, execution, messages, userMessage>>
    /\ UNCHANGED <<editorVars, callVars>>
    /\ UNCHANGED <<graphVars, chunkVars, dbVars, engineVars, storeVars>>

\* The answer reaches loadChatHistory: setMessages(data), or the error is
\* logged and the list is left alone.
LoadHistoryReturns ==
    /\ showChat
    /\ histPc = "response"
    /\ histPc' = "done"
    /\ history' = <<>>
    /\ \/ messages' = history
       \/ UNCHANGED messages
    /\ UNCHANGED <<loading, chatPc, input, execution, userMessage>>
    /\ UNCHANGED <<editorVars, callVars>>
    /\ UNCHANGED <<graphVars, chunkVars, dbVars, engineVars, storeVars>>

\* What is typed into the chat's input, which is disabled while loading.
ChatInputs == {<<"a", " ">>}

TypeInput ==
    /\ showChat
    /\ ~loading
    /\ \E typed \in ChatInputs : input' = typed /\ input # typed
    /\ UNCHANGED <<loading, chatPc, execution, messages, userMessage, histPc, history>>
    /\ UNCHANGED <<editorVars, callVars>>
    /\ UNCHANGED <<graphVars, chunkVars, dbVars, engineVars, storeVars>>

\* sendMessage without the test of loading in its guard and without
\* setInput(''): a call made while another is in progress goes ahead.
SendMessage_Unguarded ==
    /\ showChat
    /\ Trim(input) # <<>>
    /\ started < MaxSends
    /\ started' = started + 1
    /\ userMessage' = Trim(input)
    /\ loading' = TRUE
    /\ execution' = executeWorkflow(workflow_data, Trim(input))
    /\ chatPc' = "insert_user"
    /\ UNCHANGED <<input, messages, histPc, history, chat_messages, detached, editorVars>>
    /\ UNCHANGED <<graphVars, chunkVars, dbVars, engineVars, storeVars>>

\* sendMessage up to its first await; a call that does not pass the guard
\* returns and changes nothing.  The closure that runs holds the input and
\* the workflow of the render it was created in, so what its later call of
\* executeWorkflow does is settled here.  React renders again before the
\* next event is handled, so the next call sees the loading set here.
SendMessage ==
    /\ showChat
    /\ Trim(input) # <<>>
    /\ ~loading
    /\ started < MaxSends
    /\ started' = started + 1
    /\ userMessage' = Trim(input)
    /\ loading' = TRUE
    /\ input' = <<>>
    /\ execution' = executeWorkflow(workflow_data, Trim(input))
    /\ chatPc' = "insert_user"
    /\ UNCHANGED <<messages, histPc, history, chat_messages, detached, editorVars>>
    /\ UNCHANGED <<graphVars, chunkVars, dbVars, engineVars, storeVars>>

\* The insert of the user message returns: the saved row is shown, or the
\* error is thrown.  In a call whose instance is unmounted nothing is shown.
InsertUserMessage ==
    /\ \/ /\ chatPc = "insert_user"
          /\ \/ LET savedMessage == Row(started, "user", userMessage, FALSE)
                IN  /\ chat_messages' = Append(chat_messages, savedMessage)
                    /\ messages' = Append(messages, savedMessage)
                    /\ chatPc' = "execute"
             \/ /\ chatPc' = "insert_error"
                /\ UNCHANGED <<chat_messages, messages>>
          /\ UNCHANGED detached
       \/ /\ \E i \in DOMAIN detached :
                /\ detached[i].pc = "insert_user"
                /\ \/ /\ chat_messages' =
                            Append(chat_messages,
                                   Row(detached[i].call, "user",
                                       detached[i].userMessage, FALSE))
                      /\ detached' = [detached EXCEPT ![i].pc = "execute"]
                   \/ /\ detached' = [detached EXCEPT ![i].pc = "insert_error"]
                      /\ UNCHANGED chat_messages
          /\ UNCHANGED <<chatPc, messages>>
    /\ UNCHANGED <<loading, input, execution, userMessage, histPc, history, started>>
    /\ UNCHANGED editorVars
    /\ UNCHANGED <<graphVars, chunkVars, dbVars, engineVars, storeVars>>

\* await executeWorkflow(input.trim())
ExecuteWorkflow ==
    /\ \/ /\ chatPc = "execute"
          /\ chatPc' = IF execution.throws THEN "insert_error" ELSE "insert_assistant"
          /\ UNCHANGED detached
       \/ /\ \E i \in DOMAIN detached :
                /\ detached[i].pc = "execute"
                /\ detached' =
                      [detached EXCEPT ![i].pc =
                          IF detached[i].execution.throws
                          THEN "insert_error" ELSE "insert_assistant"]
          /\ UNCHANGED chatPc
    /\ UNCHANGED <<loading, input, execution, messages, userMessage, histPc, history>>
    /\ UNCHANGED <<chat_messages, started, editorVars>>
    /\ UNCHANGED <<graphVars, chunkVars, dbVars, engineVars, storeVars>>

\* The insert of the assistant message returns.
InsertAssistantMessage ==
    /\ \/ /\ chatPc = "insert_assistant"
          /\ \/ LET assistantSaved ==
                        Row(started, "assistant", execution.response, FALSE)
                IN  /\ chat_messages' = Append(chat_messages, assistantSaved)
                    /\ messages' = Append(messages, assistantSaved)
                    /\ chatPc' = "finally"
             \/ /\ chatPc' = "insert_error"
                /\ UNCHANGED <<chat_messages, messages>>
          /\ UNCHANGED detached
       \/ /\ \E i \in DOMAIN detached :
                /\ detached[i].pc = "insert_assistant"
                /\ \/ /\ chat_messages' =
                            Append(chat_messages,
                                   Row(detached[i].call, "assistant",
                                       detached[i].execution.response, FALSE))
                      /\ detached' = [detached EXCEPT ![i].pc = "finally"]
                   \/ /\ detached' = [detached EXCEPT ![i].pc = "insert_error"]
                      /\ UNCHANGED chat_messages
          /\ UNCHANGED <<chatPc, messages>>
    /\ UNCHANGED <<loading, input, execution, userMessage, histPc, history, started>>
    /\ UNCHANGED editorVars
    /\ UNCHANGED <<graphVars, chunkVars, dbVars, engineVars, storeVars>>

\* catch: the insert of the fixed error message returns; its own error is
\* not looked at.
InsertErrorMessage ==
    /\ \/ /\ chatPc = "insert_error"
          /\ \/ LET errorSaved == Row(started, "assistant", ErrorContent, TRUE)
                IN  /\ chat_messages' = Append(chat_messages, errorSaved)
                    /\ messages' = Append(messages, errorSaved)
             \/ UNCHANGED <<chat_messages, messages>>
          /\ chatPc' = "finally"
          /\ UNCHANGED detached
       \/ /\ \E i \in DOMAIN detached :
                /\ detached[i].pc = "insert_error"
                /\ \/ chat_messages' =
                         Append(chat_messages,
                                Row(detached[i].call, "assistant", ErrorContent, TRUE))
                   \/ UNCHANGED chat_messages
                /\ detached' = [detached EXCEPT ![i].pc = "finally"]
          /\ UNCHANGED <<chatPc, messages>>
    /\ UNCHANGED <<loading, input, execution, userMessage, histPc, history, started>>
    /\ UNCHANGED editorVars
    /\ UNCHANGED <<graphVars, chunkVars, dbVars, engineVars, storeVars>>

\* finally: setLoading(false), and the call is over.
SendFinally ==
    /\ \/ /\ chatPc = "finally"
          /\ loading' = FALSE
          /\ chatPc' = "idle"
          /\ execution' = None
          /\ userMessage' = <<>>
          /\ UNCHANGED detached
       \/ /\ \E i \in DOMAIN detached :
                /\ detached[i].pc = "finally"
                /\ detached' = [detached EXCEPT ![i].pc = "done"]
          /\ UNCHANGED <<loading, chatPc, execution, userMessage>>
    /\ UNCHANGED <<input, messages, histPc, history, chat_messages, started, editorVars>>
    /\ UNCHANGED <<graphVars, chunkVars, dbVars, engineVars, storeVars>>

EditorInit ==
    /\ UiInitial
    /\ workflow_data = [nodes |-> <<>>, edges |-> <<>>]
    /\ validation = None
    /\ EngineIdle
    /\ query = <<>>
    /\ StoreEmpty
    /\ text = <<>>
    /\ chunk_size = 0
    /\ chunks = <<>>
    /\ chunkPc = "ready"
    /\ DbEmpty

\* The editor page with its chat up to the start of a sendMessage call; what
\* a call does after that is followed under SpecChat.
EditorNext ==
    \/ LoadStack
    \/ AddComponent
    \/ RemoveNode
    \/ OnConnect
    \/ RemoveEdge
    \/ SaveWorkflow
    \/ SaveReturns
    \/ BuildStack
    \/ CloseChat
    \/ TypeInput
    \/ SendMessage

SpecEditor == EditorInit /\ [][EditorNext]_vars

\* The editor page on a workflow that is only loaded and taken apart again,
\* with Build Stack and the chat: the part of SpecEditor in which a chat is
\* open over a workflow that no longer passes validation.
BuildInit == EditorInit

BuildNext ==
    \/ LoadStack
    \/ RemoveNode
    \/ RemoveEdge
    \/ BuildStack
    \/ SaveReturns
    \/ CloseChat
    \/ TypeInput
    \/ SendMessage

SpecBuild == BuildInit /\ [][BuildNext]_vars

(***************************************************************************)
(* The editor once loadStack has returned, with the API keys typed into    *)
(* its nodes and the saves of its workflow.                                *)
(***************************************************************************)
SaveInit ==
    /\ workflow_data \in StoredWorkflows \ {None}
    /\ validation = None
    /\ EngineIdle
    /\ query = <<>>
    /\ StoreEmpty
    /\ text = <<>>
    /\ chunk_size = 0
    /\ chunks = <<>>
    /\ chunkPc = "ready"
    /\ DbEmpty
    /\ loadPc = "loaded"
    /\ showChat = FALSE
    /\ saving = FALSE
    /\ inflight = <<>>
    /\ lastBuild = "none"
    /\ stored_keys = {}
    /\ loading = FALSE
    /\ chatPc = "idle"
    /\ input = <<>>
    /\ execution = None
    /\ messages = <<>>
    /\ userMessage = <<>>
    /\ histPc = "done"
    /\ history = <<>>
    /\ chat_messages = <<>>
    /\ detached = <<>>
    /\ started = 0

SaveNext ==
    \/ UpdateNodeConfig
    \/ SaveWorkflow
    \/ SaveReturns
    \/ BuildStack
    \/ CloseChat

SpecSave == SaveInit /\ [][SaveNext]_vars

(***************************************************************************)
(* One ChatInterface from the moment it is mounted: loadChatHistory, the   *)
(* sendMessage calls made in it, and what is left of them once it is       *)
(* closed.                                                                 *)
(***************************************************************************)
\* The workflows the editor may hold while the chat is shown: the one that
\* passed Build Stack, the same with a configured knowledge base and keys,
\* and what is left after the LLM engine was removed under the open chat.
ChatWorkflows ==
    {[nodes |-> <<NewNode("userQuery", 1), NewNode("llmEngine", 1), NewNode("output", 1)>>,
      edges |-> <<[source |-> <<"userQuery", 1>>, target |-> <<"llmEngine", 1>>]>>],
     [nodes |-> <<NewNode("userQuery", 1),
                  [NewNode("knowledgeBase", 1) EXCEPT
                      !.config.apiKey = "sk-1",
                      !.config.uploadedFiles = <<[id |-> 1, name |-> "f1", size |-> 1]>>],
                  [NewNode("llmEngine", 1) EXCEPT
                      !.config.apiKey = "sk-1",
                      !.config.prompt = PromptTemplate,
                      !.config.webSearchApiKey = "serp-1"],
                  NewNode("output", 1)>>,
      edges |-> <<[source |-> <<"userQuery", 1>>, target |-> <<"llmEngine", 1>>]>>],
     [nodes |-> <<NewNode("userQuery", 1), NewNode("output", 1)>>,
      edges |-> <<>>]}

\* The rows the stack has from earlier chats.
EarlierMessages == {<<>>, <<Row(0, "user", <<"a">>, FALSE)>>}

ChatInit ==
    /\ workflow_data \in ChatWorkflows
    /\ validation = None
    /\ EngineIdle
    /\ query = <<>>
    /\ StoreEmpty
    /\ text = <<>>
    /\ chunk_size = 0
    /\ chunks = <<>>
    /\ chunkPc = "ready"
    /\ DbEmpty
    /\ loadPc = "loaded"
    /\ showChat = TRUE
    /\ saving = FALSE
    /\ inflight = <<>>
    /\ stored_keys = {}
    /\ lastBuild = "passed"
    /\ loading = FALSE
    /\ chatPc = "idle"
    /\ input = <<>>
    /\ execution = None
    /\ messages = <<>>
    /\ userMessage = <<>>
    /\ histPc = "select"
    /\ history = <<>>
    /\ chat_messages \in EarlierMessages
    /\ detached = <<>>
    /\ started = 0

ChatNext ==
    \/ LoadHistorySelect
    \/ LoadHistoryReturns
    \/ TypeInput
    \/ SendMessage
    \/ InsertUserMessage
    \/ ExecuteWorkflow
    \/ InsertAssistantMessage
    \/ InsertErrorMessage
    \/ SendFinally
    \/ CloseChat

SpecChat == ChatInit /\ [][ChatNext]_vars

(***************************************************************************)
(* A chat opened again by Build Stack while the sendMessage call made in   *)
(* the chat before it is still awaiting its first insert: two calls for    *)
(* the same stack run side by side.                                        *)
(***************************************************************************)
ReopenedInit ==
    /\ workflow_data \in ChatWorkflows
    /\ validation = None
    /\ EngineIdle
    /\ query = <<>>
    /\ StoreEmpty
    /\ text = <<>>
    /\ chunk_size = 0
    /\ chunks = <<>>
    /\ chunkPc = "ready"
    /\ DbEmpty
    /\ loadPc = "loaded"
    /\ showChat = TRUE
    /\ saving = FALSE
    /\ inflight = <<>>
    /\ lastBuild = "passed"
    /\ stored_keys = {}
    /\ loading = FALSE
    /\ chatPc = "idle"
    /\ input = <<>>
    /\ execution = None
    /\ messages = <<>>
    /\ userMessage = <<>>
    /\ histPc = "select"
    /\ history = <<>>
    /\ chat_messages \in EarlierMessages
    /\ detached = <<[call |-> 1, pc |-> "insert_user", unmountedAt |-> "insert_user",
                     userMessage |-> <<"a">>,
                     execution |-> executeWorkflow(workflow_data, <<"a">>)]>>
    /\ started = 1

ReopenedNext == ChatNext

SpecReopened == ReopenedInit /\ [][ReopenedNext]_vars

(***************************************************************************)
(* Prompt substitution on its own: generate_response of the reference      *)
(* backend and executeWorkflow of the chat, each run once on a prompt      *)
(* template, a context and a query.                                        *)
(***************************************************************************)
PromptChars == {"a", "{", "context", "query", "}"}

\* A template that names a placeholder twice.
RepeatedTemplate == QueryToken \o <<"a">> \o QueryToken

PromptTemplates ==
    SeqsUpTo(PromptChars, MaxPromptLen) \cup {PromptTemplate, RepeatedTemplate}

\* What _retrieve_context may have returned.
PromptContexts == {<<>>, <<"a">>, QueryToken}

\* What the user may ask.
PromptQueries == {<<"a">>, QueryToken, ContextToken, <<"$&">>}

\* The knowledge-base files of the chat's workflow.
PromptFiles == {<<>>, <<"f1">>}

PromptInit ==
    /\ \E template \in PromptTemplates, files \in PromptFiles :
          workflow_data =
             [nodes |-> <<[id |-> 1, type |-> "knowledgeBase",
                           config |-> [getDefaultConfig("knowledgeBase")
                                         EXCEPT !.uploadedFiles = files]],
                          [id |-> 2, type |-> "llmEngine",
                           config |-> [getDefaultConfig("llmEngine")
                                         EXCEPT !.prompt = template,
                                                !.useWebSearch = FALSE]]>>,
              edges |-> <<>>]
    /\ validation = None
    /\ pc = "execute_llm"
    /\ kb_node = workflow_data.nodes[1]
    /\ llm_node = workflow_data.nodes[2]
    /\ context \in PromptContexts
    /\ query \in PromptQueries
    /\ calls = <<>>
    /\ result = None
    /\ error = ""
    /\ execution_logs = <<>>
    /\ prompt = <<>>
    /\ search_results = <<>>
    /\ loadPc = "loaded"
    /\ showChat = TRUE
    /\ saving = FALSE
    /\ inflight = <<>>
    /\ stored_keys = {}
    /\ lastBuild = "passed"
    /\ loading = FALSE
    /\ chatPc = "idle"
    /\ input = query
    /\ execution = None
    /\ messages = <<>>
    /\ userMessage = <<>>
    /\ histPc = "done"
    /\ history = <<>>
    /\ chat_messages = <<>>
    /\ detached = <<>>
    /\ started = 0
    /\ StoreEmpty
    /\ text = <<>>
    /\ chunk_size = 0
    /\ chunks = <<>>
    /\ chunkPc = "ready"
    /\ DbEmpty

PromptNext == EngineExecuteLLM \/ SendMessage

SpecPrompt == PromptInit /\ [][PromptNext]_vars

(***************************************************************************)
(* Whitespace normalisation, stated without split or join: every           *)
(* non-whitespace character is kept; a whitespace character becomes one    *)
(* space exactly when it directly precedes a non-whitespace character and  *)
(* some non-whitespace character occurs before it.                         *)
(***************************************************************************)
RECURSIVE NormalizeFrom(_, _, _)
NormalizeFrom(t, i, seenLetter) ==
    IF i > Len(t) THEN <<>>
    ELSE IF t[i] \notin Whitespace
         THEN <<t[i]>> \o NormalizeFrom(t, i + 1, TRUE)
         ELSE IF seenLetter /\ i < Len(t) /\ t[i + 1] \notin Whitespace
              THEN <<" ">> \o NormalizeFrom(t, i + 1, seenLetter)
              ELSE NormalizeFrom(t, i + 1, seenLetter)

WhitespaceNormalized(t) == NormalizeFrom(t, 1, FALSE)

\* C8: joining the chunks returned by chunk_text with single spaces gives
\* back the whitespace-normalised input: no word lost, duplicated or moved.
C8_ChunkRoundTrip ==
    chunkPc = "done" => Join(chunks) = WhitespaceNormalized(text)

\* A text of several words that was cut into more than one chunk, the last
\* of them a partial one.
C8_Witness ==
    /\ chunkPc = "done"
    /\ Len(chunks) >= 2
    /\ Len(Split(text)) >= 3
    /\ Len(chunks[Len(chunks)]) + 1 < chunk_size

\* The running length of a list of words: each word's length and one more.
RECURSIVE RunningLength(_)
RunningLength(words) ==
    IF words = <<>> THEN 0
    ELSE Len(Head(words)) + 1 + RunningLength(Tail(words))

\* The words of all chunks, in order.
RECURSIVE ChunkWords(_)
ChunkWords(list) ==
    IF list = <<>> THEN <<>>
    ELSE Split(Head(list)) \o ChunkWords(Tail(list))

TypesPresent(nodes) == {nodes[i].type : i \in 1..Len(nodes)}

\* A required component (user query, LLM engine, output) is absent.
MissingRequired(nodes) == ~({"userQuery", "llmEngine", "output"} \subseteq TypesPresent(nodes))

\* C1: a graph without a user query, an LLM engine or an output node is
\* answered valid = false together with a non-empty error (the rules know
\* no warnings), and Build Stack's check rejects it as well.
C1_MissingNodeInvalid ==
    (validation # None /\ MissingRequired(workflow_data.nodes)) =>
        /\ validation.rules.valid = FALSE
        /\ "error" \in DOMAIN validation.rules
        /\ validation.rules.error # ""
        /\ validation.buildStack = FALSE

\* A validated graph that lacks only its output node.
C1_Witness ==
    /\ validation # None
    /\ TypesPresent(workflow_data.nodes) = {"userQuery", "llmEngine"}
    /\ workflow_data.edges # <<>>

\* C2: executing a graph that does not pass validation calls no provider.
C2_InvalidGraphCallsNoProvider ==
    ~validateWorkflow(workflow_data.nodes, workflow_data.edges) => calls = <<>>

\* C3: without a knowledge-base node neither the embedding service nor the
\* vector store is ever called, and the returned metadata says that no
\* context was used.
C3_NoKnowledgeBaseNoRetrieval ==
    ~HasType(workflow_data.nodes, "knowledgeBase") =>
        /\ "embedding" \notin Range(calls)
        /\ "vector_store" \notin Range(calls)
        /\ result # None => result.metadata.context_used = FALSE

\* An execution without a knowledge base that returned.
C3_Witness ==
    /\ ~HasType(workflow_data.nodes, "knowledgeBase")
    /\ pc = "Completed"
    /\ result # None

\* C4: a failure of the embedding service or of the vector store during
\* context retrieval does not fail the invocation.
C4_RetrievalFailureRecovered ==
    error \in {"EmbeddingError", "VectorStoreError"} => pc # "Failed"

\* C5: a failure of the language model fails the invocation and leaves a
\* trace whose last step has status error and a non-empty error message.
C5_ModelFailureTraced ==
    error = "LLMError" =>
        /\ pc = "Failed"
        /\ execution_logs # <<>>
        /\ execution_logs[Len(execution_logs)].status = "error"
        /\ execution_logs[Len(execution_logs)].error_message # ""

\* C6: an invocation that has ended, successfully or not, has persisted its
\* execution trace.
C6_TerminalHasTrace ==
    pc \in {"Completed", "Failed"} => execution_logs # <<>>

\* The executor state of the specification that a position of execute
\* belongs to: the component lookup is all the inspection of the graph that
\* execute does before it retrieves context.
ExecutorState ==
    CASE pc = "Idle" -> "Idle"
      [] pc = "find_components" -> "Validating"
      [] pc \in {"retrieve_context", "query_vector_store"} -> "ResolvingContext"
      [] pc \in {"execute_llm", "web_search", "chat_completion"} -> "Generating"
      [] pc = "Completed" -> "Completed"
      [] pc = "Failed" -> "Failed"

StateRank(st) ==
    CASE st = "Idle" -> 0
      [] st = "Validating" -> 1
      [] st = "ResolvingContext" -> 2
      [] st = "Generating" -> 3
      [] st \in {"Completed", "Failed"} -> 4

\* C7: the executor states follow one another only in the order Idle,
\* Validating, ResolvingContext, Generating, Completed or Failed; Validating
\* is left only for ResolvingContext or Failed, Generating is entered only
\* from ResolvingContext, the language model is called only while
\* Generating, and Completed and Failed are never left.
C7_StateOrder ==
    [][ /\ StateRank(ExecutorState) <= StateRank(ExecutorState')
        /\ ExecutorState \in {"Completed", "Failed"} => ExecutorState' = ExecutorState
        /\ ExecutorState = "Idle" => ExecutorState' \in {"Idle", "Validating"}
        /\ ExecutorState = "Validating" =>
              ExecutorState' \in {"Validating", "ResolvingContext", "Failed"}
        /\ ExecutorState' = "Generating" =>
              ExecutorState \in {"ResolvingContext", "Generating"}
        /\ calls' # calls /\ calls'[Len(calls')] \in {"llm", "web_search"} =>
              ExecutorState = "Generating"
        /\ calls' # calls /\ calls'[Len(calls')] \in {"embedding", "vector_store"} =>
              ExecutorState = "ResolvingContext"
      ]_vars

\* An execution with a knowledge base that went through every state and
\* returned.
C7_Witness ==
    /\ pc = "Completed"
    /\ calls = <<"embedding", "vector_store", "web_search", "llm">>

\* C11: an otherwise valid graph whose knowledge base has no uploaded
\* content is answered valid = true together with a warning, and executing
\* it reaches generation with empty context: retrieval does not fail it.
C11_UnconfiguredKnowledgeBaseWarned ==
    LET kb == find_node_by_type(workflow_data.nodes, "knowledgeBase")
    IN  (/\ validation # None
         /\ validation.buildStack
         /\ validation.rules.valid
         /\ kb # None
         /\ kb.config.uploadedFiles = <<>>) =>
            /\ "warnings" \in DOMAIN validation.rules
            /\ validation.rules.warnings # <<>>
            /\ error \notin {"EmbeddingError", "VectorStoreError"}
            /\ pc \in {"execute_llm", "web_search", "chat_completion", "Completed"} =>
                  context = <<>>

\* C12: with useWebSearch set, the web search is called before the
\* language model and the system prompt that the model is called with ends
\* with the search heading and the search result; without it, no web
\* search is called in the invocation.
C12_WebSearchBeforeModel ==
    LET llm == find_node_by_type(workflow_data.nodes, "llmEngine")
        searches == llm # None /\ llm.config.useWebSearch
    IN  /\ ~searches => "web_search" \notin Range(calls)
        /\ (searches /\ "llm" \in Range(calls)) =>
              /\ \E i, j \in 1..Len(calls) :
                    i < j /\ calls[i] = "web_search" /\ calls[j] = "llm"
              /\ prompt = SubstitutePrompt(llm.config, context, query)
                             \o WebSearchHeading \o search_results

\* The model was called after a web search that found something.
C12_Witness ==
    /\ pc = "Completed"
    /\ "web_search" \in Range(calls)
    /\ search_results # <<>>
    /\ context # <<>>

\* C15: an invocation on a graph that does not pass validation ends Failed
\* with a ValidationError, and its trace is exactly one step, of status
\* error.
C15_InvalidGraphFailsValidation ==
    (/\ pc \in {"Completed", "Failed"}
     /\ ~validateWorkflow(workflow_data.nodes, workflow_data.edges)) =>
        /\ pc = "Failed"
        /\ error = "ValidationError"
        /\ Len(execution_logs) = 1
        /\ execution_logs[1].status = "error"

\* C16: a web search that fails or finds nothing does not end the
\* invocation: the search result is the empty text and the language model
\* is still called.
C16_WebSearchFailureRecovered ==
    /\ error # "WebSearchError"
    /\ ("web_search" \in Range(calls) /\ pc \in {"Completed", "Failed"}) =>
          "llm" \in Range(calls)

\* How often a provider was called.
CallCount(provider) == Cardinality({i \in 1..Len(calls) : calls[i] = provider})

RECURSIVE ReachableFrom(_, _)
ReachableFrom(edges, S) ==
    LET next == S \cup {edges[i].target : i \in {k \in 1..Len(edges) : edges[k].source \in S}}
    IN  IF next = S THEN S ELSE ReachableFrom(edges, next)

\* Some LLM engine node is not reachable from any user query node.
UnreachableLLM(nodes, edges) ==
    LET queries == {nodes[i].id : i \in {k \in 1..Len(nodes) : nodes[k].type = "userQuery"}}
    IN  \E i \in 1..Len(nodes) :
           /\ nodes[i].type = "llmEngine"
           /\ nodes[i].id \notin ReachableFrom(edges, queries)

\* Validation answered that the graph is invalid, by the rules and by
\* Build Stack's check.
Rejected ==
    /\ validation.rules.valid = FALSE
    /\ validation.buildStack = FALSE

\* C17: a graph without edges is reported invalid, and so is a graph with
\* an LLM engine node that no user query node leads to, even when the three
\* required node types and an edge are there.
C17_UnreachableLLMRejected ==
    validation # None =>
        /\ workflow_data.edges = <<>> => Rejected
        /\ UnreachableLLM(workflow_data.nodes, workflow_data.edges) => Rejected

\* Some LLM engine node has no model or no API key, or some knowledge base
\* node has no embedding model.
IncompleteConfig(nodes) ==
    \E i \in 1..Len(nodes) :
        \/ /\ nodes[i].type = "llmEngine"
           /\ (nodes[i].config.model = "" \/ nodes[i].config.apiKey = "")
        \/ /\ nodes[i].type = "knowledgeBase"
           /\ nodes[i].config.embeddingModel = ""

\* C18: a graph with an LLM engine node that lacks its model or API key
\* (as the default configuration does), or with a knowledge base node that
\* lacks its embedding model, is rejected with an error.
C18_IncompleteConfigRejected ==
    (validation # None /\ IncompleteConfig(workflow_data.nodes)) =>
        /\ Rejected
        /\ "error" \in DOMAIN validation.rules

\* An edge ends at no node or loops, or two nodes share an id.
StructuralDefect(nodes, edges) ==
    LET ids == {nodes[i].id : i \in 1..Len(nodes)}
    IN  \/ \E i \in 1..Len(edges) :
              \/ edges[i].source \notin ids
              \/ edges[i].target \notin ids
              \/ edges[i].source = edges[i].target
        \/ \E i, j \in 1..Len(nodes) : i # j /\ nodes[i].id = nodes[j].id

\* C19: a graph with a structural defect is rejected, and what is reported
\* for it are structural errors only.
C19_StructuralDefectRejected ==
    (validation # None /\ StructuralDefect(workflow_data.nodes, workflow_data.edges)) =>
        /\ Rejected
        /\ validation.rules.error \notin
              {"Missing required components", "No connections between components"}

(***************************************************************************)
(* Claims about prompt substitution (SpecPrompt).                          *)
(***************************************************************************)
\* C13: after substitution the system message holds neither the literal
\* {context} nor the literal {query}, in generate_response as well as in
\* the chat's executeWorkflow, whether or not there is any context.
C13_NoPlaceholderLeft ==
    /\ pc = "chat_completion" =>
          /\ ~Contains(prompt, ContextToken)
          /\ ~Contains(prompt, QueryToken)
    /\ (execution # None /\ ~execution.throws) =>
          /\ ~Contains(execution.prompt, ContextToken)
          /\ ~Contains(execution.prompt, QueryToken)

(***************************************************************************)
(* Claims about the editor and its chat (SpecBuild).                       *)
(***************************************************************************)
\* C14: the chat is opened only by a Build Stack whose workflow passes
\* validateWorkflow; a Build Stack that fails validation starts no save and
\* leaves showChat alone; and no sendMessage, hence no execution of the
\* workflow, starts while the last Build Stack is a failed one.
C14_NoExecutionAfterFailedBuild ==
    [][ /\ (~showChat /\ showChat') =>
              validateWorkflow(workflow_data.nodes, workflow_data.edges)
        /\ (lastBuild # "failed" /\ lastBuild' = "failed") =>
              UNCHANGED <<showChat, saving, inflight>>
        /\ (~loading /\ loading') => lastBuild # "failed"
      ]_vars

(***************************************************************************)
(* Claims about one ChatInterface and its sendMessage calls (SpecChat).    *)
(***************************************************************************)
\* C21: closing the chat is how the caller gives up an invocation.  Of a
\* sendMessage call whose chat was closed, the executeWorkflow call that was
\* outstanding is aborted (it never comes to insert its response), no
\* executeWorkflow call is started after the close, and once the call is
\* over a row of execution_logs notes the cancellation.
C21_CancellationAborts ==
    \A i \in DOMAIN detached :
        /\ ~(detached[i].unmountedAt = "execute" /\ detached[i].pc = "insert_assistant")
        /\ ~(detached[i].unmountedAt = "insert_user" /\ detached[i].pc = "execute")
        /\ detached[i].pc = "done" =>
              \E j \in DOMAIN execution_logs :
                  /\ execution_logs[j].call = detached[i].call
                  /\ execution_logs[j].status = "cancelled"

(***************************************************************************)
(* Claims about the editor's saves and the keys in its nodes (SpecSave).   *)
(***************************************************************************)
\* C24: no API key of a node configuration is in the content of a row of
\* chat_messages or in a row of execution_logs, and none is kept in state
\* that one invocation shares with the next: the stack's row of stacks, from
\* which every later page and chat takes its workflow, holds no key.
C24_NoKeyRetained ==
    /\ \A i \in DOMAIN chat_messages :
          \A key \in ApiKeys : key \notin Range(chat_messages[i].content)
    /\ \A j \in DOMAIN execution_logs :
          \A key \in ApiKeys :
              /\ key \notin Range(execution_logs[j].input_data)
              /\ key \notin Range(execution_logs[j].output_data)
              /\ key \notin Range(execution_logs[j].error_message)
    /\ stored_keys = {}

\* C30: saving is set exactly while a saveWorkflow request is outstanding,
\* whether it was started by the Save button or by Build Stack, and is
\* clear once every request has returned.
C30_SavingWhileOutstanding ==
    saving <=> inflight # <<>>

(***************************************************************************)
(* Claims about the tables (SpecDb).                                       *)
(***************************************************************************)
\* The ids of rows that were inserted and are no longer there.
DeletedStacks == (1..tables.created.stacks) \ tables.stacks

DeletedDocuments == (1..tables.created.documents) \ {d.id : d \in tables.documents}

\* C25: whatever rows were inserted and deleted, no embedding is left whose
\* document was deleted, and no document, chat message or execution log is
\* left whose stack was deleted.
C25_CascadeOwnership ==
    /\ \A e \in tables.embeddings : e.document_id \notin DeletedDocuments
    /\ \A d \in tables.documents : d.stack_id \notin DeletedStacks
    /\ \A m \in tables.chat_messages : m.stack_id \notin DeletedStacks
    /\ \A l \in tables.execution_logs : l.stack_id \notin DeletedStacks

\* A stack was deleted and took its document, that document's embedding, a
\* chat message and an execution log with it.
C25_Witness ==
    /\ DeletedStacks # {}
    /\ DeletedDocuments # {}
    /\ tables.cascaded = 4

\* Whether the sendMessage call with the given number has ended.
CallOver(k) ==
    /\ k = started => chatPc = "idle"
    /\ \A i \in DOMAIN detached : detached[i].call = k => detached[i].pc = "done"

\* What the calls running side by side leave of the call with the given
\* number: its own rows only, at most a user message followed by at most one
\* assistant message, which is its own response or the fixed error text.
OwnMessages(k) ==
    LET own == SelectSeq(chat_messages, LAMBDA r : r.call = k)
        expected == executeWorkflow(workflow_data, <<"a">>)
    IN  /\ Len(own) <= 2
        /\ \A i \in DOMAIN own :
              /\ own[i].role = "user" => i = 1 /\ own[i].content = <<"a">>
              /\ own[i].role = "assistant" =>
                    /\ i = Len(own)
                    /\ \/ own[i].error /\ own[i].content = ErrorContent
                       \/ /\ ~own[i].error
                          /\ ~expected.throws
                          /\ own[i].content = expected.response

C28_UserThenAssistant ==
    \A k \in 1..started :
        CallOver(k) =>
            LET own == SelectSeq(chat_messages, LAMBDA r : r.call = k)
            IN  /\ Len(own) = 2
                /\ own[1].role = "user"
                /\ own[2].role = "assistant"
                /\ own[2].error => own[2].content = ErrorContent

\* C29: once loadChatHistory and the sendMessage calls of the chat have
\* ended, the displayed list holds every message those calls saved, in the
\* order in which they were created.
C29_DisplayKeepsSaved ==
    (showChat /\ histPc = "done" /\ chatPc = "idle") =>
        SelectSeq(messages, LAMBDA r : r.call >= 1)
           = SelectSeq(chat_messages, LAMBDA r : r.call >= 1)

(***************************************************************************)
(* Claims about two sendMessage calls side by side (SpecReopened).         *)
(***************************************************************************)
\* C26: however the steps of the calls for the stack interleave, each call
\* that has ended has left its own messages with its own response, and
\* its own trace in execution_logs: rows of its own steps and of no other
\* call's.
C26_InvocationsIndependent ==
    /\ \A k \in 1..started :
          CallOver(k) =>
             /\ OwnMessages(k)
             /\ \E j \in DOMAIN execution_logs : execution_logs[j].call = k
    /\ \A j \in DOMAIN execution_logs : execution_logs[j].call \in 1..started

(***************************************************************************)
(* Claims about the vector store (SpecStore).                              *)
(***************************************************************************)
\* C9: when the same document has been added twice, each of the chunks
\* written last is what the collection holds under that chunk's key.
C9_UpsertKeepsLastWritten ==
    (Len(adds) = 2 /\ adds[1].file = adds[2].file) =>
        \A i \in 1..Len(adds[2].documents) :
            /\ (i - 1) \in DOMAIN collection.items
            /\ collection.items[i - 1].document = adds[2].documents[i]

\* C10: a query of an existing collection does not raise, returns at most
\* n_results items, most similar first, and orders equally similar items
\* by ascending chunk index.
C10_QueryRankedWithTieBreak ==
    (query_result # None /\ query_result.existed) =>
        /\ ~query_result.raised
        /\ Len(query_result.ids) <= query_result.n_results
        /\ \A i, j \in DOMAIN query_result.ids :
              i < j =>
                 \/ query_result.similarity[i] > query_result.similarity[j]
                 \/ /\ query_result.similarity[i] = query_result.similarity[j]
                    /\ query_result.chunk_index[i] < query_result.chunk_index[j]

\* C23: when two different documents have been added to the collection, in
\* either order, every chunk of each of them is stored: for each there is an
\* item with that chunk's text and index.
C23_OtherDocumentKept ==
    (Len(adds) = 2 /\ adds[1].file # adds[2].file) =>
        \A k \in 1..2 :
            \A i \in DocIds(adds[k].documents) :
                \E id \in DOMAIN collection.items :
                    collection.items[id] = Item(adds[k].documents, i)

====
